---------------------------- MODULE Spec2Model ----------------------------
(***************************************************************************)
(* A model of raw_cpuid (src/src/lib.rs): the raw CPUID query (cpuid1,     *)
(* cpuid2), the leaf catalog (LEAF_INFORMATION), the typed queries of      *)
(* CpuId, the Display rendering of CpuIdVendorInfo and the bit-field       *)
(* accessors of CpuIdFeatureInfo.                                          *)
(*                                                                         *)
(* A u32 is the pair <<hi, lo>> of its upper and lower 16 bits, so that    *)
(* every operation of the source on u32 (>>, &, `as u8`, the byte view of  *)
(* as_bytes) is exact at 32 bits while TLC's own integers stop at          *)
(* 2^31 - 1.  A u8 is a number 0..255.                                     *)
(*                                                                         *)
(* The asm! statements of cpuid1/cpuid2 are taken to execute in program    *)
(* order on one register file (eax, ebx, ecx, edx); what the registers     *)
(* hold when a function is entered is whatever earlier code left there.    *)
(***************************************************************************)
EXTENDS Integers, Sequences, FiniteSets, TLC

VARIABLES
    catalog, \* the leaf catalog of the process (read-only data)
    cpu,     \* the processor the calling thread runs on (what `cpuid` answers)
    regs,    \* the machine registers eax, ebx, ecx, edx
    query,   \* eax and ecx as the last `cpuid` instruction read them
    vinfo,   \* the caller's CpuIdVendorInfo (lib.rs:194), or NoInfo
    finfo,   \* the caller's CpuIdFeatureInfo (lib.rs:207), or NoInfo
    call,    \* the last call on this thread: [op, val], val the value returned
    prev     \* the call before it

vars == <<catalog, cpu, regs, query, vinfo, finfo, call, prev>>

---------------------------------------------------------------------------
(* u32 arithmetic                                                          *)

Pow2(n) == 2 ^ n

\* The u32 whose upper 16 bits are hi and whose lower 16 bits are lo.
U32(hi, lo) == <<hi, lo>>

Hi(x) == x[1]

Lo(x) == x[2]

\* x >> s on u32, 0 <= s <= 31 (logical: zeros enter at the top).
Shr(x, s) ==
    IF s >= 16
    THEN U32(0, Hi(x) \div Pow2(s - 16))
    ELSE U32(Hi(x) \div Pow2(s),
             (Lo(x) \div Pow2(s)) + (Hi(x) % Pow2(s)) * Pow2(16 - s))

\* x << s on u32, 0 <= s <= 31 (bits shifted past bit 31 are lost).
Shl(x, s) ==
    IF s >= 16
    THEN U32((Lo(x) * Pow2(s - 16)) % 65536, 0)
    ELSE U32(((Hi(x) * Pow2(s)) % 65536) + (Lo(x) \div Pow2(16 - s)),
             (Lo(x) * Pow2(s)) % 65536)

RECURSIVE And16(_, _, _)
\* a & b on the low n bits of two numbers.
And16(a, b, n) ==
    IF n = 0 THEN 0
    ELSE ((a % 2) * (b % 2)) + 2 * And16(a \div 2, b \div 2, n - 1)

RECURSIVE Or16(_, _, _)
\* a | b on the low n bits of two numbers.
Or16(a, b, n) ==
    IF n = 0 THEN 0
    ELSE (IF (a % 2) + (b % 2) > 0 THEN 1 ELSE 0) + 2 * Or16(a \div 2, b \div 2, n - 1)

\* x & y
BitAnd(x, y) == U32(And16(Hi(x), Hi(y), 16), And16(Lo(x), Lo(y), 16))

\* x | y
BitOr(x, y) == U32(Or16(Hi(x), Hi(y), 16), Or16(Lo(x), Lo(y), 16))

\* `x as u8`: the low 8 bits.
AsU8(x) == Lo(x) % 256

\* `v as u32` for a u8 v.
FromU8(v) == U32(0, v)

Zero32 == U32(0, 0)

---------------------------------------------------------------------------
(* The leaf catalog                                                        *)

CpuIdLeaf ==
    { "VendorInformation", "FeatureInformation", "CacheInformation",
      "ProcessorSerial", "CacheParameters", "MonitorMwait",
      "ThermalPowerManagement", "StructuredExtendedFeature",
      "DirectCacheAccess", "PerformanceMonitoring", "ExtendedTopology",
      "ProcessorExtendedState", "QualityofService", "ExtendedFunction" }

LeafData(leaf, label, selector) ==
    [leaf |-> leaf, label |-> label, selector |-> selector]

\* Faulty variant of the catalog: the entry of leaf 0x9 carries selector 0x7.
LEAF_INFORMATION_dup_selector ==
    << LeafData("VendorInformation", "GenuineIntel", U32(0, \H0)),
       LeafData("FeatureInformation", "Version/Feature Information", U32(0, \H1)),
       LeafData("CacheInformation", "Cache and TLB Information", U32(0, \H2)),
       LeafData("ProcessorSerial", "Processor serial number", U32(0, \H3)),
       LeafData("CacheParameters", "Deterministic Cache Parameters", U32(0, \H4)),
       LeafData("MonitorMwait", "MONITOR/MWAIT", U32(0, \H5)),
       LeafData("ThermalPowerManagement", "Thermal and Power Management", U32(0, \H6)),
       LeafData("StructuredExtendedFeature", "Structured Extended Feature Flags", U32(0, \H7)),
       LeafData("DirectCacheAccess", "Direct Cache Access Information", U32(0, \H7)),
       LeafData("PerformanceMonitoring", "Architectural Performance Monitoring", U32(0, \HA)),
       LeafData("ExtendedTopology", "Extended Topology Enumeration", U32(0, \HB)),
       LeafData("ProcessorExtendedState", "Processor Extended State Enumeration", U32(0, \HD)),
       LeafData("QualityofService", "Quality of Service", U32(0, \HF)),
       LeafData("ExtendedFunction", "Extended Function CPUID Information", U32(\H8000, \H0000)) >>

LEAF_INFORMATION ==
    << LeafData("VendorInformation", "GenuineIntel", U32(0, \H0)),
       LeafData("FeatureInformation", "Version/Feature Information", U32(0, \H1)),
       LeafData("CacheInformation", "Cache and TLB Information", U32(0, \H2)),
       LeafData("ProcessorSerial", "Processor serial number", U32(0, \H3)),
       LeafData("CacheParameters", "Deterministic Cache Parameters", U32(0, \H4)),
       LeafData("MonitorMwait", "MONITOR/MWAIT", U32(0, \H5)),
       LeafData("ThermalPowerManagement", "Thermal and Power Management", U32(0, \H6)),
       LeafData("StructuredExtendedFeature", "Structured Extended Feature Flags", U32(0, \H7)),
       LeafData("DirectCacheAccess", "Direct Cache Access Information", U32(0, \H9)),
       LeafData("PerformanceMonitoring", "Architectural Performance Monitoring", U32(0, \HA)),
       LeafData("ExtendedTopology", "Extended Topology Enumeration", U32(0, \HB)),
       LeafData("ProcessorExtendedState", "Processor Extended State Enumeration", U32(0, \HD)),
       LeafData("QualityofService", "Quality of Service", U32(0, \HF)),
       LeafData("ExtendedFunction", "Extended Function CPUID Information", U32(\H8000, \H0000)) >>

---------------------------------------------------------------------------
(* Bounds of the model                                                     *)

\* Sub-leaves 0..MaxSubLeaf are passed to cpuid2 and left in registers.
MaxSubLeaf == 1

\* Logical cores 0..MaxCore of the package (they differ in the APIC id).
MaxCore == 1

\* The number of generated u32 samples handed to the decoders.
NumGen == 3

---------------------------------------------------------------------------
(* The processor: what the `cpuid` instruction answers                     *)

AllOnes == U32(\HFFFF, \HFFFF)

CpuIdResult(a, b, c, d) == [eax |-> a, ebx |-> b, ecx |-> c, edx |-> d]

ZeroResult == CpuIdResult(Zero32, Zero32, Zero32, Zero32)

\* The processor of the test genuine_intel (lib.rs:198-200), logical core n:
\* family 6, model 0x3A, stepping 9; the initial APIC id is bits 31:24 of
\* leaf 1's ebx.
GenuineIntel(n) ==
    [ vendor  |-> [ebx |-> U32(\H756e, \H6547), ecx |-> U32(\H6c65, \H746e),
                   edx |-> U32(\H4965, \H6e69)],
      maxleaf |-> U32(0, \HD),
      sig     |-> U32(\H0003, \H06A9),
      ebx1    |-> BitOr(Shl(FromU8(n), 24), U32(\H0010, \H0800)),
      feat    |-> [ecx |-> U32(\H7FBA, \HE3BF), edx |-> U32(\HBFEB, \HFBFF)],
      caches  |-> << U32(\H1C00, \H4121), U32(\H1C00, \H4122) >>,
      other   |-> CpuIdResult(U32(0, \H7), U32(0, \H340), U32(0, \H340), Zero32) ]

\* An AuthenticAMD processor, logical core n: no leaf 4, zeros for the
\* leaves it does not implement.
AuthenticAMD(n) ==
    [ vendor  |-> [ebx |-> U32(\H6874, \H7541), ecx |-> U32(\H444d, \H4163),
                   edx |-> U32(\H6974, \H6e65)],
      maxleaf |-> U32(0, \HD),
      sig     |-> U32(\H0080, \H0F11),
      ebx1    |-> BitOr(Shl(FromU8(n), 24), U32(\H0008, \H0800)),
      feat    |-> [ecx |-> U32(\H7ED8, \H320B), edx |-> U32(\H178B, \HFBFF)],
      caches  |-> << >>,
      other   |-> ZeroResult ]

Cores == 0 .. MaxCore

Processors == {GenuineIntel(n) : n \in Cores} \cup {AuthenticAMD(n) : n \in Cores}

\* The other logical cores of the package of processor c.
Siblings(c) == {p \in Processors : p.vendor = c.vendor /\ p # c}

\* Leaf 4 (Deterministic Cache Parameters) is indexed by the sub-leaf in ecx:
\* cache n for sub-leaf n, zeros (cache type 0) past the last cache.
CacheParameters(c, ecx) ==
    IF \E n \in 1 .. Len(c.caches) : ecx = U32(0, n - 1)
    THEN LET n == CHOOSE n \in 1 .. Len(c.caches) : ecx = U32(0, n - 1)
         IN  CpuIdResult(c.caches[n], U32(\H01C0, \H003F), U32(0, \H3F), Zero32)
    ELSE ZeroResult

\* The `cpuid` instruction on processor c with eax (leaf) and ecx (sub-leaf)
\* as it finds them in the registers.  Leaves 0 and 1 take no sub-leaf.
Primitive(c, eax, ecx) ==
    CASE eax = U32(0, \H0) ->
           CpuIdResult(c.maxleaf, c.vendor.ebx, c.vendor.ecx, c.vendor.edx)
      [] eax = U32(0, \H1) ->
           CpuIdResult(c.sig, c.ebx1, c.feat.ecx, c.feat.edx)
      [] eax = U32(0, \H4) ->
           CacheParameters(c, ecx)
      [] eax = U32(\H8000, \H0000) ->
           CpuIdResult(U32(\H8000, \H0008), Zero32, Zero32, Zero32)
      [] OTHER ->
           c.other

---------------------------------------------------------------------------
(* Raw query                                                               *)

\* "movl $0, %reg": the operand v into register reg.
Movl(r, reg, v) == [r EXCEPT ![reg] = v]

\* "cpuid": reads eax and ecx, writes eax, ebx, ecx and edx.
Cpuid(c, r) == Primitive(c, r.eax, r.ecx)

\* What the instruction read.
Issued(r) == [eax |-> r.eax, ecx |-> r.ecx]

\* Faulty variant of cpuid2: the outputs "={ebx}" and "={ecx}" bound to the
\* wrong fields of res.
cpuid2_outputs_swapped(c, r, eax, ecx) ==
    LET res0 == CpuIdResult(Zero32, Zero32, Zero32, Zero32)
        r1   == Movl(r, "eax", eax)
        r2   == Movl(r1, "ecx", ecx)
        r3   == Cpuid(c, r2)
    IN  [ regs  |-> r3,
          query |-> Issued(r2),
          res   |-> [res0 EXCEPT !.eax = r3.eax, !.ebx = r3.ecx,
                                 !.ecx = r3.ebx, !.edx = r3.edx] ]

\* fn cpuid2(eax, ecx) on processor c entered with registers r: the registers
\* it leaves, what `cpuid` read, and the CpuIdResult it returns.
cpuid2(c, r, eax, ecx) ==
    LET res0 == CpuIdResult(Zero32, Zero32, Zero32, Zero32)
        r1   == Movl(r, "eax", eax)
        r2   == Movl(r1, "ecx", ecx)
        r3   == Cpuid(c, r2)
    IN  [ regs  |-> r3,
          query |-> Issued(r2),
          res   |-> [res0 EXCEPT !.eax = r3.eax, !.ebx = r3.ebx,
                                 !.ecx = r3.ecx, !.edx = r3.edx] ]

\* Faulty variant of cpuid1: the move of the leaf into eax is missing, so
\* `cpuid` reads whatever eax holds.
cpuid1_no_movl(c, r, eax) ==
    LET res0 == CpuIdResult(Zero32, Zero32, Zero32, Zero32)
        r2   == Cpuid(c, r)
    IN  [ regs  |-> r2,
          query |-> Issued(r),
          res   |-> [res0 EXCEPT !.eax = r2.eax, !.ebx = r2.ebx,
                                 !.ecx = r2.ecx, !.edx = r2.edx] ]

\* fn cpuid1(eax): as cpuid2 without the move into ecx.
cpuid1(c, r, eax) ==
    LET res0 == CpuIdResult(Zero32, Zero32, Zero32, Zero32)
        r1   == Movl(r, "eax", eax)
        r2   == Cpuid(c, r1)
    IN  [ regs  |-> r2,
          query |-> Issued(r1),
          res   |-> [res0 EXCEPT !.eax = r2.eax, !.ebx = r2.ebx,
                                 !.ecx = r2.ecx, !.edx = r2.edx] ]

---------------------------------------------------------------------------
(* Typed queries of CpuId                                                  *)

CpuIdVendorInfo(b, c, d) == [ebx |-> b, ecx |-> c, edx |-> d]

CpuIdFeatureInfo(a, b, c, d) == [eax |-> a, ebx |-> b, ecx |-> c, edx |-> d]

\* Faulty variant of get_vendor_information: ecx and edx exchanged.
get_vendor_information_swapped(c, r) ==
    LET o == cpuid1(c, r, U32(0, 0))
    IN  [ regs |-> o.regs, query |-> o.query, res |-> o.res,
          ret  |-> CpuIdVendorInfo(o.res.ebx, o.res.edx, o.res.ecx) ]

\* CpuId::get_vendor_information on processor c entered with registers r:
\* cpuid!(0) is cpuid1(0 as u32).
get_vendor_information(c, r) ==
    LET o == cpuid1(c, r, U32(0, 0))
    IN  [ regs |-> o.regs, query |-> o.query, res |-> o.res,
          ret  |-> CpuIdVendorInfo(o.res.ebx, o.res.ecx, o.res.edx) ]

\* CpuId::get_feature_information: cpuid!(1) is cpuid1(1 as u32).
get_feature_information(c, r) ==
    LET o == cpuid1(c, r, U32(0, 1))
    IN  [ regs |-> o.regs, query |-> o.query, res |-> o.res,
          ret  |-> CpuIdFeatureInfo(o.res.eax, o.res.ebx, o.res.ecx, o.res.edx) ]

---------------------------------------------------------------------------
(* Display for CpuIdVendorInfo                                             *)

\* The byte at address start + k of a u32 stored in memory (x86, the only
\* target of the `cpuid` asm, stores the least significant byte first).
MemByte(v, k) ==
    CASE k = 0 -> Lo(v) % 256
      [] k = 1 -> Lo(v) \div 256
      [] k = 2 -> Hi(v) % 256
      [] k = 3 -> Hi(v) \div 256

\* Faulty variant of as_bytes: the bytes most significant first.
as_bytes_big_endian(v) ==
    << MemByte(v, 3), MemByte(v, 2), MemByte(v, 1), MemByte(v, 0) >>

\* fn as_bytes(v: &u32) -> &[u8]: the 4 bytes at the address of v.
as_bytes(v) == << MemByte(v, 0), MemByte(v, 1), MemByte(v, 2), MemByte(v, 3) >>

\* str::from_utf8_unchecked: the same bytes, taken as a str without a check.
from_utf8_unchecked(bytes) == bytes

\* Faulty variant of fmt: the words in the order ebx, ecx, edx.
fmt_register_order(self) ==
    from_utf8_unchecked(as_bytes(self.ebx))
    \o from_utf8_unchecked(as_bytes(self.ecx))
    \o from_utf8_unchecked(as_bytes(self.edx))

\* fmt: write!(f, "{}{}{}", ebx, edx, ecx); each "{}" is written with the
\* default format spec, that is the bytes of the str as they are.
fmt(self) ==
    from_utf8_unchecked(as_bytes(self.ebx))
    \o from_utf8_unchecked(as_bytes(self.edx))
    \o from_utf8_unchecked(as_bytes(self.ecx))

---------------------------------------------------------------------------
(* Accessors of CpuIdFeatureInfo                                           *)

get_extended_family_id(self) == AsU8(BitAnd(Shr(self.eax, 20), U32(0, \Hff)))

get_extended_model_id(self) == AsU8(BitAnd(Shr(self.eax, 16), U32(0, \b1111)))

\* Faulty variant of get_family_id: a 3-bit mask.
get_family_id_narrow_mask(self) == AsU8(BitAnd(Shr(self.eax, 8), U32(0, \b111)))

get_family_id(self) == AsU8(BitAnd(Shr(self.eax, 8), U32(0, \b1111)))

\* Faulty variant of get_model: the shift of get_family_id.
get_model_wrong_shift(self) == AsU8(BitAnd(Shr(self.eax, 8), U32(0, \b1111)))

get_model(self) == AsU8(BitAnd(Shr(self.eax, 4), U32(0, \b1111)))

get_stepping_id(self) == AsU8(BitAnd(self.eax, U32(0, \b1111)))

get_brand_index(self) == AsU8(self.ebx)

\* Faulty variant of get_cflush_cache_line_size: bits 23:16.
get_cflush_cache_line_size_wrong_shift(self) == AsU8(Shr(self.ebx, 16))

get_cflush_cache_line_size(self) == AsU8(Shr(self.ebx, 8))

get_local_apic_id(self) == AsU8(Shr(self.ebx, 24))

---------------------------------------------------------------------------
(* Inputs                                                                  *)

\* Leaves handed to the raw query: catalog entries without and with a
\* sub-leaf (0x0, 0x4), the extended range (0x80000000), and a selector
\* absent from the catalog.
LeafSamples ==
    { LEAF_INFORMATION[i].selector : i \in {1, 5, 14} }
    \cup { AllOnes }

SubLeafSamples == { U32(0, n) : n \in 0 .. MaxSubLeaf }

\* Values other code may leave in a register.
RegSamples == SubLeafSamples \cup { AllOnes }

RegNames == {"eax", "ebx", "ecx", "edx"}

\* The registers `cpuid` reads: what other code leaves in ebx and edx is
\* overwritten before anything reads it.
InputRegs == {"eax", "ecx"}

\* Generated u32 samples.
Gen(i) == U32((i * 40503 + 12345) % 65536, (i * 25173 + 13849) % 65536)

GenWords == { Gen(i) : i \in 1 .. NumGen }

SampleWords == { U32(\H0003, \H06A9), AllOnes, Zero32 } \cup GenWords

\* CpuIdFeatureInfo values a caller may hold (the fields are pub).
FeatureSamples == { CpuIdFeatureInfo(a, b, Zero32, Zero32) : a, b \in SampleWords }

\* CpuIdVendorInfo values a caller may hold.
VendorSamples ==
    { p.vendor : p \in Processors }
    \cup { CpuIdVendorInfo(b, c, d) : b, c, d \in GenWords }

\* No struct obtained yet.
NoInfo == [none |-> TRUE]

NoCall == [op |-> "none", val |-> 0]

Call(op, val) == [op |-> op, val |-> val]

---------------------------------------------------------------------------
(* Actions                                                                 *)

\* cpuid!(leaf)
RawQuery1(leaf) ==
    LET o == cpuid1(cpu, regs, leaf)
    IN  /\ regs' = o.regs
        /\ query' = o.query
        /\ call' = Call("cpuid1", o.res)
        /\ prev' = call
        /\ UNCHANGED <<catalog, cpu, vinfo, finfo>>

\* cpuid!(leaf, subleaf)
RawQuery2(leaf, subleaf) ==
    LET o == cpuid2(cpu, regs, leaf, subleaf)
    IN  /\ regs' = o.regs
        /\ query' = o.query
        /\ call' = Call("cpuid2", o.res)
        /\ prev' = call
        /\ UNCHANGED <<catalog, cpu, vinfo, finfo>>

\* let vinfo = cpu.get_vendor_information();
GetVendorInformation ==
    LET o == get_vendor_information(cpu, regs)
    IN  /\ regs' = o.regs
        /\ query' = o.query
        /\ vinfo' = o.ret
        /\ call' = Call("get_vendor_information", o.ret)
        /\ prev' = call
        /\ UNCHANGED <<catalog, cpu, finfo>>

\* let finfo = cpu.get_feature_information();
GetFeatureInformation ==
    LET o == get_feature_information(cpu, regs)
    IN  /\ regs' = o.regs
        /\ query' = o.query
        /\ finfo' = o.ret
        /\ call' = Call("get_feature_information", o.ret)
        /\ prev' = call
        /\ UNCHANGED <<catalog, cpu, vinfo>>

\* A call that reads the caller's struct and returns val.
Returns(op, val) ==
    /\ call' = Call(op, val)
    /\ prev' = call
    /\ UNCHANGED <<catalog, cpu, regs, query, vinfo, finfo>>

\* println!("{}", vinfo)
Fmt == vinfo # NoInfo /\ Returns("fmt", fmt(vinfo))

GetExtendedFamilyId ==
    finfo # NoInfo /\ Returns("get_extended_family_id", get_extended_family_id(finfo))

GetExtendedModelId ==
    finfo # NoInfo /\ Returns("get_extended_model_id", get_extended_model_id(finfo))

GetFamilyId == finfo # NoInfo /\ Returns("get_family_id", get_family_id(finfo))

GetModel == finfo # NoInfo /\ Returns("get_model", get_model(finfo))

GetSteppingId == finfo # NoInfo /\ Returns("get_stepping_id", get_stepping_id(finfo))

GetBrandIndex == finfo # NoInfo /\ Returns("get_brand_index", get_brand_index(finfo))

GetCflushCacheLineSize ==
    finfo # NoInfo
    /\ Returns("get_cflush_cache_line_size", get_cflush_cache_line_size(finfo))

GetLocalApicId == finfo # NoInfo /\ Returns("get_local_apic_id", get_local_apic_id(finfo))

\* Other code of the thread runs between two calls and leaves v in register reg.
Clobber(reg, v) ==
    /\ regs[reg] # v
    /\ regs' = Movl(regs, reg, v)
    /\ call' = NoCall
    /\ prev' = call
    /\ UNCHANGED <<catalog, cpu, query, vinfo, finfo>>

\* The thread is moved to another logical core.
Migrate ==
    /\ \E p \in Siblings(cpu) : cpu' = p
    /\ call' = NoCall
    /\ prev' = call
    /\ UNCHANGED <<catalog, regs, query, vinfo, finfo>>

Decode ==
    \/ Fmt
    \/ GetExtendedFamilyId
    \/ GetExtendedModelId
    \/ GetFamilyId
    \/ GetModel
    \/ GetSteppingId
    \/ GetBrandIndex
    \/ GetCflushCacheLineSize
    \/ GetLocalApicId

---------------------------------------------------------------------------
(* Spec: a thread using the library on a processor                         *)

Init ==
    /\ catalog = LEAF_INFORMATION
    /\ cpu \in Processors
    /\ regs \in { [reg \in RegNames |-> IF reg \in InputRegs THEN f[reg] ELSE Zero32] :
                  f \in [InputRegs -> RegSamples] }
    /\ query = Issued(regs)
    /\ vinfo = NoInfo
    /\ finfo = NoInfo
    /\ call = NoCall
    /\ prev = NoCall

Next ==
    \/ \E leaf \in LeafSamples : RawQuery1(leaf)
    \/ \E leaf \in LeafSamples, subleaf \in SubLeafSamples : RawQuery2(leaf, subleaf)
    \/ GetVendorInformation
    \/ GetFeatureInformation
    \/ \E reg \in InputRegs, v \in RegSamples : Clobber(reg, v)
    \/ Migrate

Spec == Init /\ [][Next]_vars

---------------------------------------------------------------------------
(* SpecDecode: the decoders, which are pure functions of the struct they   *)
(* are handed, applied to the structs a caller may hold (FeatureSamples    *)
(* and VendorSamples: what the typed queries return on Processors, and     *)
(* more).                                                                  *)

InitDecode ==
    /\ catalog = LEAF_INFORMATION
    /\ cpu = GenuineIntel(0)
    /\ regs = [reg \in RegNames |-> Zero32]
    /\ query = Issued(regs)
    /\ \/ vinfo \in VendorSamples /\ finfo = NoInfo
       \/ vinfo = NoInfo /\ finfo \in FeatureSamples
    /\ call = NoCall
    /\ prev = NoCall

NextDecode == Decode

SpecDecode == InitDecode /\ [][NextDecode]_vars

---------------------------------------------------------------------------
(* Properties of the decoders (checked under SpecDecode)                   *)

\* Bit i of a u32 (0 past bit 31).
BitAt(x, i) ==
    IF i > 31 THEN 0
    ELSE IF i < 16 THEN (Lo(x) \div Pow2(i)) % 2
    ELSE (Hi(x) \div Pow2(i - 16)) % 2

RECURSIVE ShiftMaskBits(_, _, _, _)
\* Bits n-1..0 of (w >> shift) & mask, bit by bit, for a mask below 256.
ShiftMaskBits(w, shift, mask, n) ==
    IF n = 0 THEN 0
    ELSE ShiftMaskBits(w, shift, mask, n - 1)
         + BitAt(w, shift + n - 1) * ((mask \div Pow2(n - 1)) % 2) * Pow2(n - 1)

\* (w >> shift) & mask truncated to 8 bits.
ShiftMask8(w, shift, mask) == ShiftMaskBits(w, shift, mask, 8)

\* The table of accessors: source word, shift, mask.
AccessorTable ==
    [ get_extended_family_id     |-> [word |-> "eax", shift |-> 20, mask |-> \HFF],
      get_extended_model_id      |-> [word |-> "eax", shift |-> 16, mask |-> \H0F],
      get_family_id              |-> [word |-> "eax", shift |-> 8,  mask |-> \H0F],
      get_model                  |-> [word |-> "eax", shift |-> 4,  mask |-> \H0F],
      get_stepping_id            |-> [word |-> "eax", shift |-> 0,  mask |-> \H0F],
      get_brand_index            |-> [word |-> "ebx", shift |-> 0,  mask |-> \HFF],
      get_cflush_cache_line_size |-> [word |-> "ebx", shift |-> 8,  mask |-> \HFF],
      get_local_apic_id          |-> [word |-> "ebx", shift |-> 24, mask |-> \HFF] ]

Accessors == DOMAIN AccessorTable

\* C1: whatever the words eax and ebx of the CpuIdFeatureInfo, each of the
\* eight accessors returns (word >> shift) & mask truncated to 8 bits, with
\* the word, shift and mask of the table; for eax = 0x000306A9 the family id
\* is 6, the model 0xA and the stepping id 9.
C1_AccessorsMatchTable ==
    call.op \in Accessors =>
        /\ call.val = ShiftMask8(finfo[AccessorTable[call.op].word],
                                 AccessorTable[call.op].shift,
                                 AccessorTable[call.op].mask)
        /\ finfo.eax = U32(\H0003, \H06A9) =>
              /\ call.op = "get_family_id" => call.val = 6
              /\ call.op = "get_model" => call.val = 10
              /\ call.op = "get_stepping_id" => call.val = 9

\* get_model has returned 0xA for eax = 0x000306A9.
C1_Witness ==
    /\ call.op = "get_model"
    /\ finfo.eax = U32(\H0003, \H06A9)
    /\ call.val = 10

\* The word of a CpuIdVendorInfo that output byte i (0..11) comes from.
VendorWord(self, i) ==
    IF i < 4 THEN self.ebx ELSE IF i < 8 THEN self.edx ELSE self.ecx

\* C2: the rendering of a CpuIdVendorInfo is exactly 12 bytes, and byte i
\* (0..11) is (w >> 8*(i mod 4)) & 0xFF, w being ebx for bytes 0..3, edx for
\* bytes 4..7 and ecx for bytes 8..11.
C2_DisplayBytes ==
    call.op = "fmt" =>
        /\ Len(call.val) = 12
        /\ \A i \in 0 .. 11 :
              call.val[i + 1] = ShiftMask8(VendorWord(vinfo, i), 8 * (i % 4), \HFF)

\* A CpuIdVendorInfo of three different words, none with four equal bytes,
\* has been rendered.
C2_Witness ==
    /\ call.op = "fmt"
    /\ vinfo.ebx # vinfo.ecx /\ vinfo.ecx # vinfo.edx /\ vinfo.ebx # vinfo.edx
    /\ \A w \in {vinfo.ebx, vinfo.ecx, vinfo.edx} :
          Cardinality({MemByte(w, k) : k \in 0 .. 3}) > 1

AsciiUpper ==
    << "A", "B", "C", "D", "E", "F", "G", "H", "I", "J", "K", "L", "M",
       "N", "O", "P", "Q", "R", "S", "T", "U", "V", "W", "X", "Y", "Z" >>

AsciiLower ==
    << "a", "b", "c", "d", "e", "f", "g", "h", "i", "j", "k", "l", "m",
       "n", "o", "p", "q", "r", "s", "t", "u", "v", "w", "x", "y", "z" >>

\* The ASCII code of a letter: 'A' is 65, 'a' is 97.
Ascii(ch) ==
    IF \E i \in 1 .. 26 : AsciiUpper[i] = ch
    THEN 64 + (CHOOSE i \in 1 .. 26 : AsciiUpper[i] = ch)
    ELSE 96 + (CHOOSE i \in 1 .. 26 : AsciiLower[i] = ch)

\* The bytes of a text given letter by letter.
AsciiBytes(letters) == [i \in 1 .. Len(letters) |-> Ascii(letters[i])]

\* C3: ebx=0x756e6547, ecx=0x6c65746e, edx=0x49656e69 renders as the 12
\* characters "GenuineIntel", and ebx=0x68747541, edx=0x69746e65,
\* ecx=0x444d4163 as "AuthenticAMD", with nothing after them.
C3_KnownVendors ==
    call.op = "fmt" =>
        /\ vinfo = CpuIdVendorInfo(U32(\H756e, \H6547), U32(\H6c65, \H746e),
                                   U32(\H4965, \H6e69))
           => call.val = AsciiBytes(<< "G", "e", "n", "u", "i", "n", "e",
                                       "I", "n", "t", "e", "l" >>)
        /\ vinfo = CpuIdVendorInfo(U32(\H6874, \H7541), U32(\H444d, \H4163),
                                   U32(\H6974, \H6e65))
           => call.val = AsciiBytes(<< "A", "u", "t", "h", "e", "n", "t",
                                       "i", "c", "A", "M", "D" >>)

\* The GenuineIntel words have been rendered.
C3_Witness ==
    /\ call.op = "fmt"
    /\ vinfo = CpuIdVendorInfo(U32(\H756e, \H6547), U32(\H6c65, \H746e),
                               U32(\H4965, \H6e69))
    /\ Len(call.val) = 12

\* The five fields of eax, in the order of their positions.
SignatureFields(self) ==
    << get_extended_family_id(self), get_extended_model_id(self),
       get_family_id(self), get_model(self), get_stepping_id(self) >>

\* The five fields of eax, each shifted back to its position, OR-ed.
Reassembled(self) ==
    BitOr(Shl(FromU8(get_extended_family_id(self)), 20),
    BitOr(Shl(FromU8(get_extended_model_id(self)), 16),
    BitOr(Shl(FromU8(get_family_id(self)), 8),
    BitOr(Shl(FromU8(get_model(self)), 4),
          FromU8(get_stepping_id(self))))))

\* The accessors of eax, and those of ebx.
EaxAccessors == {a \in Accessors : AccessorTable[a].word = "eax"}

EbxAccessors == {a \in Accessors : AccessorTable[a].word = "ebx"}

\* C4 as stated: the five fields of eax shifted back and OR-ed give
\* eax & 0x0FFFFFFF, and decoding that word gives the same five fields.
C4_ReassemblesLow28 ==
    call.op \in EaxAccessors =>
        /\ Reassembled(finfo) = BitAnd(finfo.eax, U32(\H0FFF, \HFFFF))
        /\ SignatureFields([finfo EXCEPT !.eax = Reassembled(finfo)])
              = SignatureFields(finfo)

\* C4 as amended: the five fields of eax shifted back and OR-ed give
\* eax & 0x0FFF0FFF (bits 27:16 and 11:0; no accessor reads bits 15:12), and
\* decoding that word gives the same five fields.
C4_ReassemblesCoveredBits ==
    call.op \in EaxAccessors =>
        /\ Reassembled(finfo) = BitAnd(finfo.eax, U32(\H0FFF, \H0FFF))
        /\ SignatureFields([finfo EXCEPT !.eax = Reassembled(finfo)])
              = SignatureFields(finfo)

\* The accessors of eax have been called on a word whose bits 15:12 and
\* 31:28 are not all zero.
C4_Witness ==
    /\ call.op = "get_stepping_id"
    /\ prev.op = "get_family_id"
    /\ BitAnd(finfo.eax, U32(\HF000, \HF000)) # Zero32
    /\ Reassembled(finfo) # Zero32

\* Bytes written into a slice of ebx.
ByteSamples == {0, \H5A, \HA5, \HFF}

\* The u32 x with bits shift+7..shift replaced by the u8 v.
WithSlice(x, shift, v) ==
    LET hole == CASE shift = 0  -> U32(\HFFFF, \HFF00)
                  [] shift = 8  -> U32(\HFFFF, \H00FF)
                  [] shift = 16 -> U32(\HFF00, \HFFFF)
                  [] shift = 24 -> U32(\H00FF, \HFFFF)
    IN  BitOr(BitAnd(x, hole), Shl(FromU8(v), shift))

\* The three fields of ebx.
EbxFields(self) ==
    [ brand |-> get_brand_index(self),
      cflush |-> get_cflush_cache_line_size(self),
      apic |-> get_local_apic_id(self) ]

\* The slice of ebx each field of EbxFields is read from.
EbxSlice == [brand |-> 0, cflush |-> 8, apic |-> 24]

\* C5: the brand index, the CLFLUSH line size and the local APIC id are
\* disjoint 8-bit slices of ebx (bits 7:0, 15:8, 31:24): OR-ed back at their
\* positions together with bits 23:16 they give ebx, and writing any byte
\* into one slice leaves what the other two accessors return unchanged.
C5_EbxSlicesDisjoint ==
    call.op \in EbxAccessors =>
        /\ BitOr(FromU8(get_brand_index(finfo)),
           BitOr(Shl(FromU8(get_cflush_cache_line_size(finfo)), 8),
           BitOr(BitAnd(finfo.ebx, U32(\H00FF, \H0000)),
                 Shl(FromU8(get_local_apic_id(finfo)), 24)))) = finfo.ebx
        /\ \A f \in DOMAIN EbxSlice, v \in ByteSamples :
              LET other == [finfo EXCEPT !.ebx = WithSlice(finfo.ebx, EbxSlice[f], v)]
              IN  /\ EbxFields(other)[f] = v
                  /\ \A g \in DOMAIN EbxSlice \ {f} :
                        EbxFields(other)[g] = EbxFields(finfo)[g]

\* The three accessors of ebx have been called on a word whose four bytes
\* all differ.
C5_Witness ==
    /\ call.op = "get_local_apic_id"
    /\ prev.op = "get_cflush_cache_line_size"
    /\ Cardinality({MemByte(finfo.ebx, k) : k \in 0 .. 3}) = 4

---------------------------------------------------------------------------
(* Properties of the queries (checked under Spec)                          *)

RawOps == {"cpuid1", "cpuid2"}

TypedOps == {"get_vendor_information", "get_feature_information"}

\* C6 as stated: whatever the leaf and whatever the registers held before,
\* cpuid1(leaf) returns the four words cpuid2(leaf, 0) returns (its `cpuid`
\* reading sub-leaf 0 in ecx).
C6_Cpuid1IsCpuid2WithZero ==
    call.op = "cpuid1" => call.val = cpuid2(cpu, regs, query.eax, Zero32).res

\* C7: get_vendor_information queries leaf 0 and returns the ebx, ecx and edx
\* of the answer as they are; get_feature_information queries leaf 1 and
\* returns eax, ebx, ecx and edx of the answer as they are; on a GenuineIntel
\* processor the vendor words are ebx=0x756e6547, edx=0x49656e69,
\* ecx=0x6c65746e.
C7_TypedQueries ==
    LET answer == Primitive(cpu, query.eax, query.ecx)
    IN  /\ call.op = "get_vendor_information" =>
              /\ query.eax = U32(0, \H0)
              /\ call.val = [ebx |-> answer.ebx, ecx |-> answer.ecx, edx |-> answer.edx]
              /\ vinfo = call.val
              /\ cpu \in {GenuineIntel(n) : n \in Cores} =>
                    /\ call.val.ebx = U32(\H756e, \H6547)
                    /\ call.val.edx = U32(\H4965, \H6e69)
                    /\ call.val.ecx = U32(\H6c65, \H746e)
        /\ call.op = "get_feature_information" =>
              /\ query.eax = U32(0, \H1)
              /\ call.val = [eax |-> answer.eax, ebx |-> answer.ebx,
                             ecx |-> answer.ecx, edx |-> answer.edx]
              /\ finfo = call.val

\* get_vendor_information has returned on a GenuineIntel processor, after a
\* get_feature_information.
C7_Witness ==
    /\ call.op = "get_vendor_information"
    /\ prev.op = "get_feature_information"
    /\ cpu \in {GenuineIntel(n) : n \in Cores}

\* x < y on u32.
LessU32(x, y) == Hi(x) < Hi(y) \/ (Hi(x) = Hi(y) /\ Lo(x) < Lo(y))

\* C8: in every state the catalog is the same sequence of 14 descriptors:
\* every CpuIdLeaf in exactly one of them, no selector twice, the selectors
\* strictly ascending from 0x0 to 0x80000000, ExtendedFunction last.
C8_Catalog ==
    LET n == Len(catalog)
    IN  /\ catalog = LEAF_INFORMATION
        /\ n = 14
        /\ Cardinality(CpuIdLeaf) = 14
        /\ \A k \in CpuIdLeaf :
              Cardinality({i \in 1 .. n : catalog[i].leaf = k}) = 1
        /\ \A i, j \in 1 .. n :
              i # j => catalog[i].selector # catalog[j].selector
        /\ \A i \in 1 .. n - 1 :
              LessU32(catalog[i].selector, catalog[i + 1].selector)
        /\ catalog[1].selector = U32(0, \H0)
        /\ catalog[n].selector = U32(\H8000, \H0000)
        /\ catalog[n].leaf = "ExtendedFunction"

\* Operations have run, the last of them a query of the catalog's last
\* selector.
C8_Witness ==
    /\ call.op \in RawOps
    /\ prev.op \in TypedOps
    /\ query.eax = catalog[Len(catalog)].selector

\* C9: of two calls of get_vendor_information, or of two calls of
\* get_feature_information, one right after the other on the same logical
\* core, the second returns what the first returned.
C9_RepeatedTypedQuery ==
    (call.op \in TypedOps /\ prev.op = call.op) => call.val = prev.val

\* get_feature_information has been called twice in a row, the second call
\* entered with the ecx the first one left.
C9_Witness ==
    /\ call.op = "get_feature_information"
    /\ prev.op = "get_feature_information"
    /\ query.ecx = cpu.feat.ecx

IsU32(x) == x \in (0 .. 65535) \X (0 .. 65535)

\* A CpuIdResult of four u32.
IsCpuIdResult(v) == DOMAIN v = RegNames /\ \A reg \in RegNames : IsU32(v[reg])

\* C10: cpuid1 and cpuid2 have no error path: whatever the leaf (in the
\* catalog or not), the sub-leaf and the registers they are entered with,
\* they return a CpuIdResult of four u32, the words `cpuid` answered, none of
\* them altered.
C10_RawQueryPassesThrough ==
    /\ \A leaf \in LeafSamples :
          /\ IsCpuIdResult(cpuid1(cpu, regs, leaf).res)
          /\ cpuid1(cpu, regs, leaf).res = Primitive(cpu, leaf, regs.ecx)
          /\ \A subleaf \in SubLeafSamples :
                /\ IsCpuIdResult(cpuid2(cpu, regs, leaf, subleaf).res)
                /\ cpuid2(cpu, regs, leaf, subleaf).res = Primitive(cpu, leaf, subleaf)
    /\ call.op \in RawOps =>
          /\ IsCpuIdResult(call.val)
          /\ call.val = Primitive(cpu, query.eax, query.ecx)
          /\ call.val = regs

\* Both raw queries have returned, the last one for a selector that is not
\* in the catalog.
C10_Witness ==
    /\ call.op = "cpuid1"
    /\ prev.op = "cpuid2"
    /\ query.eax = AllOnes
    /\ \A i \in 1 .. Len(LEAF_INFORMATION) : LEAF_INFORMATION[i].selector # query.eax

===========================================================================
